---- MODULE Spec2Model ----
(***************************************************************************)
(* deduplify/hash_files.py: run_hash walks a directory tree, hashes the    *)
(* files of each directory in a thread pool, groups the paths by digest    *)
(* and rewrites the duplicates and the uniques JSON documents after every  *)
(* result.  A path is the sequence of its components, so that a bare file  *)
(* name <<"a.txt">> and a joined path <<"x", "a.txt">> are different       *)
(* values, as the strings "a.txt" and "x/a.txt" are.                       *)
(***************************************************************************)
EXTENDS Integers, Sequences, FiniteSets, TLC

VARIABLES
    scen,           \* the directory tree and its environment, fixed in a behaviour
    pc,             \* position of the coordinating thread
    restart,        \* run_hash argument restart
    count,          \* run_hash argument count
    runs,           \* number of calls of run_hash so far
    cause,          \* the exception a run ended with, "none" otherwise
    dupfile,        \* the duplicates document on disk
    unfile,         \* the uniques document on disk
    hashes,         \* the store: digest -> sequence of paths
    files_to_skip,  \* the paths the prior documents record
    dirIdx,         \* position of os.walk in the tree
    futures,        \* the tasks of the current directory's pool
    dup_dict,       \* filter_dict's first result
    unique_dict,    \* filter_dict's second result
    submitted,      \* history: paths submitted to the pool in this run
    docsAtStart,    \* history: the two documents when this run started
    lastRec,        \* history: the result recorded last in this run, << >> if none
    freshFinals,    \* history: documents (as sets) at the end of complete fresh runs
    arg_results,    \* the argument of the last call of filter_dict
    rounds,         \* history: writer rounds completed in this run
    recorded,       \* history: number of results recorded in this run
    roundDocs       \* history: the documents after this run's last completed round

vars == <<scen, pc, restart, count, runs, cause, dupfile, unfile, hashes,
          files_to_skip, dirIdx, futures, dup_dict, unique_dict, submitted,
          docsAtStart, lastRec, freshFinals, arg_results, rounds, recorded,
          roundDocs>>

(* Bounds *)
MaxRuns == 2
MaxWorkers == 2
MaxSeqLen == 3

Range(s) == {s[i] : i \in DOMAIN s}

EmptyMap == [k \in {} |-> << >>]

(***************************************************************************)
(* Paths and trees                                                         *)
(***************************************************************************)
join(dirName, filename) == Append(dirName, filename)

Digests == {"d1", "d2"}

RootDir == <<"x">>
SubDir == <<"x", "s">>

Tree(exists, walk, content, unreadable, unwritable) ==
    [exists |-> exists, walk |-> walk, content |-> content,
     unreadable |-> unreadable, unwritable |-> unwritable]

Dir(dirName, fileList) == [dirName |-> dirName, fileList |-> fileList]

\* a tree without files: the root and one empty subdirectory
EmptyTree ==
    Tree(TRUE, <<Dir(RootDir, << >>), Dir(SubDir, << >>)>>, EmptyMap, {}, {})

\* a.txt and b.txt with identical content, c.txt with different content
FlatTree ==
    Tree(TRUE, <<Dir(RootDir, <<"a.txt", "b.txt", "c.txt">>)>>,
         (<<"x", "a.txt">> :> "d1") @@ (<<"x", "b.txt">> :> "d1")
            @@ (<<"x", "c.txt">> :> "d2"),
         {}, {})

\* two directories, the name a.txt in both
NestedTree ==
    Tree(TRUE, <<Dir(RootDir, <<"a.txt">>), Dir(SubDir, <<"a.txt", "b.txt">>)>>,
         (<<"x", "a.txt">> :> "d1") @@ (<<"x", "s", "a.txt">> :> "d2")
            @@ (<<"x", "s", "b.txt">> :> "d1"),
         {}, {})

\* b.txt cannot be opened
UnreadableTree ==
    Tree(TRUE, <<Dir(RootDir, <<"a.txt", "b.txt">>)>>,
         (<<"x", "a.txt">> :> "d1") @@ (<<"x", "b.txt">> :> "d2"),
         {<<"x", "b.txt">>}, {})

\* the root directory does not exist
MissingTree == Tree(FALSE, << >>, EmptyMap, {}, {})

\* opening the uniques document for writing can fail
UnwritableTree ==
    Tree(TRUE, <<Dir(RootDir, <<"a.txt", "b.txt">>)>>,
         (<<"x", "a.txt">> :> "d1") @@ (<<"x", "b.txt">> :> "d1"),
         {}, {"un"})

\* opening the duplicates document for writing can fail
UnwritableDupTree ==
    Tree(TRUE, <<Dir(RootDir, <<"a.txt", "b.txt">>)>>,
         (<<"x", "a.txt">> :> "d1") @@ (<<"x", "b.txt">> :> "d2"),
         {}, {"dup"})

Scenarios ==
    {EmptyTree, FlatTree, NestedTree, UnreadableTree, MissingTree, UnwritableTree,
     UnwritableDupTree}

AllFiles(t) == DOMAIN t.content

(***************************************************************************)
(* Documents on disk                                                       *)
(***************************************************************************)
Absent == [st |-> "absent", map |-> EmptyMap]
Truncated == [st |-> "truncated", map |-> EmptyMap]
Json(content) == [st |-> "json", map |-> content]

(***************************************************************************)
(* hashfile, filter_dict and the resume computations of run_hash           *)
(***************************************************************************)
\* the digest stands for the MD5 of the file's bytes: equal content, equal digest
hashfile(path) == <<scen.content[path], path>>

Readable(path) == path \notin scen.unreadable

\* mutant: a pair of equal files is not yet a duplicate
duplicated_over_two(results) ==
    [key \in {k \in DOMAIN results : Len(results[k]) > 2} |-> results[key]]

duplicated(results) ==
    [key \in {k \in DOMAIN results : Len(results[k]) > 1} |-> results[key]]

\* mutant: every digest with at least one path counts as unique
unique_at_least_one(results) ==
    [key \in {k \in DOMAIN results : Len(results[k]) >= 1} |-> results[key][1]]

unique(results) ==
    [key \in {k \in DOMAIN results : Len(results[k]) = 1} |-> results[key][1]]

filter_dict(results) == <<duplicated(results), unique(results)>>

\* mutant: the path is put in front of the digest's sequence
record_prepend(store, hash, filepath) ==
    [key \in DOMAIN store \cup {hash} |->
        IF key # hash THEN store[key]
        ELSE IF hash \in DOMAIN store THEN <<filepath>> \o store[hash]
        ELSE <<filepath>>]

\* mutant: the digest's sequence is replaced, not extended
record_overwrite(store, hash, filepath) ==
    [key \in DOMAIN store \cup {hash} |->
        IF key = hash THEN <<filepath>> ELSE store[key]]

\* hashes[hash].append(filepath) on a defaultdict(list)
record(store, hash, filepath) ==
    IF hash \in DOMAIN store
    THEN [store EXCEPT ![hash] = Append(@, filepath)]
    ELSE store @@ (hash :> <<filepath>>)

\* un_dict[key] = [value]
wrap(un_dict) == [key \in DOMAIN un_dict |-> <<un_dict[key]>>]

\* {**dup_dict, **un_dict}: on a common key the uniques entry wins
pre_hashed_dict(dup_doc, un_doc) ==
    [key \in DOMAIN dup_doc.map \cup DOMAIN un_doc.map |->
        IF key \in DOMAIN un_doc.map THEN wrap(un_doc.map)[key]
                                     ELSE dup_doc.map[key]]

\* [item for values in pre_hashed_dict.values() for item in values]
\* (only membership is asked of the list, so it is kept as a set)
skip_list(pre_hashed) ==
    UNION {Range(pre_hashed[key]) : key \in DOMAIN pre_hashed}

\* filename not in files_to_skip: the bare name is compared with the entries
not_skipped(filename, skip) == <<filename>> \notin skip

\* mutant: only the duplicates document is checked and loaded
ConfigError_dup_only(t, r, dup_doc, un_doc) ==
    IF ~t.exists THEN "ValueError"
    ELSE IF r /\ dup_doc.st = "absent" THEN "FileNotFoundError"
    ELSE IF r /\ dup_doc.st # "json" THEN "JSONDecodeError"
    ELSE "none"

\* the checks of run_hash before the walk, in the order of the code
ConfigError(t, r, dup_doc, un_doc) ==
    IF ~t.exists THEN "ValueError"
    ELSE IF r /\ dup_doc.st = "absent" THEN "FileNotFoundError"
    ELSE IF r /\ un_doc.st = "absent" THEN "FileNotFoundError"
    ELSE IF r /\ dup_doc.st # "json" THEN "JSONDecodeError"
    ELSE IF r /\ un_doc.st # "json" THEN "JSONDecodeError"
    ELSE "none"

\* the documents as sets: order inside a sequence ignored
AsSets(dup_doc, un_doc) ==
    [dst |-> dup_doc.st,
     dups |-> {<<k, Range(dup_doc.map[k])>> : k \in DOMAIN dup_doc.map},
     ust |-> un_doc.st,
     uniqs |-> {<<k, un_doc.map[k]>> : k \in DOMAIN un_doc.map}]

(***************************************************************************)
(* The worker pool of one directory                                        *)
(***************************************************************************)
Task(path) == [path |-> path, st |-> "pending"]

NumRunning == Cardinality({i \in DOMAIN futures : futures[i].st = "running"})

Pending == {i \in DOMAIN futures : futures[i].st = "pending"}

PoolBusy == \E i \in DOMAIN futures : futures[i].st \in {"pending", "running"}

InRun == pc \in {"walk", "collect", "open_dup", "dump_dup", "open_un",
                 "dump_un", "unwind"}

PoolOpen == pc \in {"collect", "open_dup", "dump_dup", "open_un", "dump_un",
                    "unwind"}

(***************************************************************************)
(* Initial state: nothing has run, no document exists                      *)
(***************************************************************************)
Init ==
    /\ scen \in Scenarios
    /\ pc = "idle"
    /\ restart = FALSE
    /\ count = 1
    /\ runs = 0
    /\ cause = "none"
    /\ dupfile = Absent
    /\ unfile = Absent
    /\ hashes = EmptyMap
    /\ files_to_skip = {}
    /\ dirIdx = 0
    /\ futures = << >>
    /\ dup_dict = EmptyMap
    /\ unique_dict = EmptyMap
    /\ submitted = {}
    /\ docsAtStart = <<Absent, Absent>>
    /\ lastRec = << >>
    /\ freshFinals = << >>
    /\ arg_results = EmptyMap
    /\ rounds = 0
    /\ recorded = 0
    /\ roundDocs = << >>

(***************************************************************************)
(* run_hash, lines 133-171: the checks and the resume path                 *)
(***************************************************************************)
CanStart == pc \in {"idle", "done", "raised", "crashed"} /\ runs < MaxRuns

RunHashStart(r, c) ==
    /\ CanStart
    /\ ConfigError(scen, r, dupfile, unfile) = "none"
    /\ pc' = "walk"
    /\ restart' = r
    /\ count' = c
    /\ runs' = runs + 1
    /\ cause' = "none"
    /\ hashes' = IF r THEN pre_hashed_dict(dupfile, unfile) ELSE EmptyMap
    /\ files_to_skip' = IF r THEN skip_list(pre_hashed_dict(dupfile, unfile))
                             ELSE {}
    /\ dirIdx' = 1
    /\ futures' = << >>
    /\ dup_dict' = EmptyMap
    /\ unique_dict' = EmptyMap
    /\ submitted' = {}
    /\ docsAtStart' = <<dupfile, unfile>>
    /\ lastRec' = << >>
    /\ arg_results' = EmptyMap
    /\ rounds' = 0
    /\ recorded' = 0
    /\ roundDocs' = << >>
    /\ UNCHANGED <<scen, dupfile, unfile, freshFinals>>

RunHashConfigError(r, c) ==
    /\ CanStart
    /\ ConfigError(scen, r, dupfile, unfile) # "none"
    /\ pc' = "raised"
    /\ restart' = r
    /\ count' = c
    /\ runs' = runs + 1
    /\ cause' = ConfigError(scen, r, dupfile, unfile)
    /\ hashes' = EmptyMap
    /\ files_to_skip' = {}
    /\ dirIdx' = 0
    /\ futures' = << >>
    /\ dup_dict' = EmptyMap
    /\ unique_dict' = EmptyMap
    /\ submitted' = {}
    /\ docsAtStart' = <<dupfile, unfile>>
    /\ lastRec' = << >>
    /\ arg_results' = EmptyMap
    /\ rounds' = 0
    /\ recorded' = 0
    /\ roundDocs' = << >>
    /\ UNCHANGED <<scen, dupfile, unfile, freshFinals>>

(***************************************************************************)
(* run_hash, lines 173-179: the next directory of the walk, its pool and   *)
(* the submission of its tasks                                             *)
(***************************************************************************)
SubmitDir ==
    /\ pc = "walk"
    /\ dirIdx <= Len(scen.walk)
    /\ LET d == scen.walk[dirIdx]
           Keep(filename) == not_skipped(filename, files_to_skip)
           names == SelectSeq(d.fileList, Keep)
       IN /\ futures' = [i \in 1..Len(names) |-> Task(join(d.dirName, names[i]))]
          /\ submitted' = submitted \cup {join(d.dirName, names[i]) : i \in 1..Len(names)}
    /\ pc' = "collect"
    /\ UNCHANGED <<scen, restart, count, runs, cause, dupfile, unfile, hashes,
                   files_to_skip, dirIdx, dup_dict, unique_dict, docsAtStart,
                   lastRec, freshFinals, arg_results, rounds,
                   recorded, roundDocs>>

\* the walk is exhausted: run_hash returns
WalkDone ==
    /\ pc = "walk"
    /\ dirIdx > Len(scen.walk)
    /\ pc' = "done"
    /\ freshFinals' = IF restart THEN freshFinals
                      ELSE Append(freshFinals, AsSets(dupfile, unfile))
    /\ UNCHANGED <<scen, restart, count, runs, cause, dupfile, unfile, hashes,
                   files_to_skip, dirIdx, futures, dup_dict, unique_dict,
                   submitted, docsAtStart, lastRec, arg_results, rounds,
                   recorded, roundDocs>>

(***************************************************************************)
(* The pool's threads: at most count tasks run, taken from the queue in    *)
(* submission order; hashfile returns or raises                            *)
(***************************************************************************)
\* mutant: the last thread of the pool is never used
WorkerStart_off_by_one ==
    /\ PoolOpen
    /\ Pending # {}
    /\ NumRunning < count - 1
    /\ LET i == CHOOSE j \in Pending : \A k \in Pending : j <= k
       IN futures' = [futures EXCEPT ![i].st = "running"]
    /\ UNCHANGED <<scen, pc, restart, count, runs, cause, dupfile, unfile,
                   hashes, files_to_skip, dirIdx, dup_dict, unique_dict,
                   submitted, docsAtStart, lastRec, freshFinals, arg_results, rounds,
                   recorded, roundDocs>>

\* mutant: a thread is started for every queued task
WorkerStart_unbounded ==
    /\ PoolOpen
    /\ Pending # {}
    /\ LET i == CHOOSE j \in Pending : \A k \in Pending : j <= k
       IN futures' = [futures EXCEPT ![i].st = "running"]
    /\ UNCHANGED <<scen, pc, restart, count, runs, cause, dupfile, unfile,
                   hashes, files_to_skip, dirIdx, dup_dict, unique_dict,
                   submitted, docsAtStart, lastRec, freshFinals, arg_results, rounds,
                   recorded, roundDocs>>

WorkerStart ==
    /\ PoolOpen
    /\ Pending # {}
    /\ NumRunning < count
    /\ LET i == CHOOSE j \in Pending : \A k \in Pending : j <= k
       IN futures' = [futures EXCEPT ![i].st = "running"]
    /\ UNCHANGED <<scen, pc, restart, count, runs, cause, dupfile, unfile,
                   hashes, files_to_skip, dirIdx, dup_dict, unique_dict,
                   submitted, docsAtStart, lastRec, freshFinals, arg_results, rounds,
                   recorded, roundDocs>>

\* mutant: the pool thread appends its result to the store itself
WorkerFinish_records(i) ==
    /\ PoolOpen
    /\ futures[i].st = "running"
    /\ futures' = [futures EXCEPT ![i].st =
                       IF Readable(futures[i].path) THEN "ok" ELSE "failed"]
    /\ hashes' = IF Readable(futures[i].path)
                 THEN record(hashes, hashfile(futures[i].path)[1], futures[i].path)
                 ELSE hashes
    /\ UNCHANGED <<scen, pc, restart, count, runs, cause, dupfile, unfile,
                   files_to_skip, dirIdx, dup_dict, unique_dict,
                   submitted, docsAtStart, lastRec, freshFinals, arg_results, rounds,
                   recorded, roundDocs>>

WorkerFinish(i) ==
    /\ PoolOpen
    /\ futures[i].st = "running"
    /\ futures' = [futures EXCEPT ![i].st =
                       IF Readable(futures[i].path) THEN "ok" ELSE "failed"]
    /\ UNCHANGED <<scen, pc, restart, count, runs, cause, dupfile, unfile,
                   hashes, files_to_skip, dirIdx, dup_dict, unique_dict,
                   submitted, docsAtStart, lastRec, freshFinals, arg_results, rounds,
                   recorded, roundDocs>>

(***************************************************************************)
(* run_hash, lines 180-184: as_completed yields a finished future, its     *)
(* result is recorded and the store filtered                               *)
\* mutant: the documents are not written inside the loop over the results
RetrieveResult_no_write(i) ==
    /\ pc = "collect"
    /\ futures[i].st = "ok"
    /\ LET res == hashfile(futures[i].path)
           store == record(hashes, res[1], res[2])
       IN /\ hashes' = store
          /\ dup_dict' = filter_dict(store)[1]
          /\ unique_dict' = filter_dict(store)[2]
          /\ lastRec' = res
          /\ arg_results' = store
          /\ recorded' = recorded + 1
    /\ futures' = [futures EXCEPT ![i].st = "yielded"]
    /\ pc' = "collect"
    /\ UNCHANGED <<scen, restart, count, runs, cause, dupfile, unfile,
                   files_to_skip, dirIdx, submitted, docsAtStart, freshFinals, rounds,
                   roundDocs>>

(***************************************************************************)
RetrieveResult(i) ==
    /\ pc = "collect"
    /\ futures[i].st = "ok"
    /\ LET res == hashfile(futures[i].path)
           store == record(hashes, res[1], res[2])
       IN /\ hashes' = store
          /\ dup_dict' = filter_dict(store)[1]
          /\ unique_dict' = filter_dict(store)[2]
          /\ lastRec' = res
          /\ arg_results' = store
          /\ recorded' = recorded + 1
    /\ futures' = [futures EXCEPT ![i].st = "yielded"]
    /\ pc' = "open_dup"
    /\ UNCHANGED <<scen, restart, count, runs, cause, dupfile, unfile,
                   files_to_skip, dirIdx, submitted, docsAtStart, freshFinals, rounds,
                   roundDocs>>

\* future.result() raises the task's exception in the coordinating thread
RetrieveException(i) ==
    /\ pc = "collect"
    /\ futures[i].st = "failed"
    /\ futures' = [futures EXCEPT ![i].st = "yielded"]
    /\ pc' = "unwind"
    /\ cause' = "OSError"
    /\ UNCHANGED <<scen, restart, count, runs, dupfile, unfile, hashes,
                   files_to_skip, dirIdx, dup_dict, unique_dict, submitted,
                   docsAtStart, lastRec, freshFinals, arg_results, rounds,
                   recorded, roundDocs>>

\* mutant: the walk goes on without waiting for the tasks not yet finished
PoolExit_no_wait ==
    /\ pc = "collect"
    /\ \A i \in DOMAIN futures : futures[i].st \notin {"ok", "failed"}
    /\ futures' = << >>
    /\ dirIdx' = dirIdx + 1
    /\ pc' = "walk"
    /\ UNCHANGED <<scen, restart, count, runs, cause, dupfile, unfile, hashes,
                   files_to_skip, dup_dict, unique_dict, submitted, docsAtStart,
                   lastRec, freshFinals, arg_results, rounds,
                   recorded, roundDocs>>

\* every future was yielded: the with block ends and the walk goes on
PoolExit ==
    /\ pc = "collect"
    /\ \A i \in DOMAIN futures : futures[i].st = "yielded"
    /\ futures' = << >>
    /\ dirIdx' = dirIdx + 1
    /\ pc' = "walk"
    /\ UNCHANGED <<scen, restart, count, runs, cause, dupfile, unfile, hashes,
                   files_to_skip, dup_dict, unique_dict, submitted, docsAtStart,
                   lastRec, freshFinals, arg_results, rounds,
                   recorded, roundDocs>>

(***************************************************************************)
(* run_hash, lines 186-189: each document is opened with "w", which        *)
(* empties it, and then dumped                                             *)
(***************************************************************************)
OpenDup ==
    /\ pc = "open_dup"
    /\ dupfile' = Truncated
    /\ pc' = "dump_dup"
    /\ UNCHANGED <<scen, restart, count, runs, cause, unfile, hashes,
                   files_to_skip, dirIdx, futures, dup_dict, unique_dict,
                   submitted, docsAtStart, lastRec, freshFinals, arg_results, rounds,
                   recorded, roundDocs>>

DumpDup ==
    /\ pc = "dump_dup"
    /\ dupfile' = Json(dup_dict)
    /\ pc' = "open_un"
    /\ UNCHANGED <<scen, restart, count, runs, cause, unfile, hashes,
                   files_to_skip, dirIdx, futures, dup_dict, unique_dict,
                   submitted, docsAtStart, lastRec, freshFinals, arg_results, rounds,
                   recorded, roundDocs>>

OpenUn ==
    /\ pc = "open_un"
    /\ unfile' = Truncated
    /\ pc' = "dump_un"
    /\ UNCHANGED <<scen, restart, count, runs, cause, dupfile, hashes,
                   files_to_skip, dirIdx, futures, dup_dict, unique_dict,
                   submitted, docsAtStart, lastRec, freshFinals, arg_results, rounds,
                   recorded, roundDocs>>

\* mutant: the duplicates are dumped into the uniques document too
DumpUn_writes_dup ==
    /\ pc = "dump_un"
    /\ unfile' = Json(dup_dict)
    /\ pc' = "collect"
    /\ rounds' = rounds + 1
    /\ roundDocs' = <<dupfile, Json(dup_dict)>>
    /\ UNCHANGED <<scen, restart, count, runs, cause, dupfile, hashes,
                   files_to_skip, dirIdx, futures, dup_dict, unique_dict,
                   submitted, docsAtStart, lastRec, freshFinals, arg_results, recorded>>

DumpUn ==
    /\ pc = "dump_un"
    /\ unfile' = Json(unique_dict)
    /\ pc' = "collect"
    /\ rounds' = rounds + 1
    /\ roundDocs' = <<dupfile, Json(unique_dict)>>
    /\ UNCHANGED <<scen, restart, count, runs, cause, dupfile, hashes,
                   files_to_skip, dirIdx, futures, dup_dict, unique_dict,
                   submitted, docsAtStart, lastRec, freshFinals, arg_results, recorded>>

\* open(filename, "w") raises (no permission, no space): possible for the
\* documents the tree names as unwritable, at any round
OpenRaises ==
    /\ \/ pc = "open_dup" /\ "dup" \in scen.unwritable
       \/ pc = "open_un" /\ "un" \in scen.unwritable
    /\ pc' = "unwind"
    /\ cause' = "PermissionError"
    /\ UNCHANGED <<scen, restart, count, runs, dupfile, unfile, hashes,
                   files_to_skip, dirIdx, futures, dup_dict, unique_dict,
                   submitted, docsAtStart, lastRec, freshFinals, arg_results, rounds,
                   recorded, roundDocs>>

(***************************************************************************)
(* An exception leaves the with block: the executor's exit waits for the   *)
(* tasks still queued or running, then the exception leaves run_hash       *)
(***************************************************************************)
Unwind ==
    /\ pc = "unwind"
    /\ ~PoolBusy
    /\ pc' = "raised"
    /\ UNCHANGED <<scen, restart, count, runs, cause, dupfile, unfile, hashes,
                   files_to_skip, dirIdx, futures, dup_dict, unique_dict,
                   submitted, docsAtStart, lastRec, freshFinals, arg_results, rounds,
                   recorded, roundDocs>>

(***************************************************************************)
(* The process is stopped during the walk: memory is lost, the documents   *)
(* stay as they are on disk                                                *)
(***************************************************************************)
Crash ==
    /\ InRun
    /\ pc' = "crashed"
    /\ cause' = "killed"
    /\ hashes' = EmptyMap
    /\ files_to_skip' = {}
    /\ dirIdx' = 0
    /\ futures' = << >>
    /\ dup_dict' = EmptyMap
    /\ unique_dict' = EmptyMap
    /\ lastRec' = << >>
    /\ arg_results' = EmptyMap
    /\ rounds' = 0
    /\ recorded' = 0
    /\ roundDocs' = << >>
    /\ UNCHANGED <<scen, restart, count, runs, dupfile, unfile, submitted,
                   docsAtStart, freshFinals>>

Next ==
    \/ \E r \in BOOLEAN, c \in 1..MaxWorkers : RunHashStart(r, c)
    \/ \E r \in BOOLEAN, c \in 1..MaxWorkers : RunHashConfigError(r, c)
    \/ SubmitDir
    \/ WalkDone
    \/ WorkerStart
    \/ \E i \in DOMAIN futures : WorkerFinish(i)
    \/ \E i \in DOMAIN futures : RetrieveResult(i)
    \/ \E i \in DOMAIN futures : RetrieveException(i)
    \/ PoolExit
    \/ OpenDup
    \/ DumpDup
    \/ OpenUn
    \/ DumpUn
    \/ OpenRaises
    \/ Unwind
    \/ Crash

Spec == Init /\ [][Next]_vars

(***************************************************************************)
(* filter_dict on its own: every store of up to three digests whose        *)
(* sequences hold up to MaxSeqLen paths, the empty sequence included       *)
(***************************************************************************)
FilterKeys == {"d1", "d2", "d3"}

FilterPaths == {<<"x", "a.txt">>, <<"x", "b.txt">>}

SeqsUpTo(S, n) == UNION {[1..m -> S] : m \in 0..n}

Stores == UNION {[D -> SeqsUpTo(FilterPaths, MaxSeqLen)] : D \in SUBSET FilterKeys}

InitFilter ==
    /\ scen = FlatTree
    /\ pc = "filter_in"
    /\ hashes \in Stores
    /\ arg_results = hashes
    /\ restart = FALSE
    /\ count = 1
    /\ runs = 0
    /\ cause = "none"
    /\ dupfile = Absent
    /\ unfile = Absent
    /\ files_to_skip = {}
    /\ dirIdx = 0
    /\ futures = << >>
    /\ dup_dict = EmptyMap
    /\ unique_dict = EmptyMap
    /\ submitted = {}
    /\ docsAtStart = <<Absent, Absent>>
    /\ lastRec = << >>
    /\ freshFinals = << >>
    /\ rounds = 0
    /\ recorded = 0
    /\ roundDocs = << >>

FilterDictCall ==
    /\ pc = "filter_in"
    /\ dup_dict' = filter_dict(arg_results)[1]
    /\ unique_dict' = filter_dict(arg_results)[2]
    /\ pc' = "filter_out"
    /\ UNCHANGED <<scen, restart, count, runs, cause, dupfile, unfile, hashes,
                   files_to_skip, dirIdx, futures, submitted, docsAtStart,
                   lastRec, freshFinals, arg_results, rounds,
                   recorded, roundDocs>>

NextFilter == FilterDictCall

SpecFilter == InitFilter /\ [][NextFilter]_vars

(***************************************************************************)
(* Definitions the properties are stated with                              *)
(***************************************************************************)
\* the base file name of a path
basename(path) == path[Len(path)]

\* the paths of tree t whose content has digest d
SameContent(t, d) == {f \in AllFiles(t) : t.content[f] = d}

\* the partition of a completely hashed tree t, as sets
CompletePartition(t) ==
    [dst |-> "json",
     dups |-> {<<d, SameContent(t, d)>> :
                  d \in {e \in Digests : Cardinality(SameContent(t, e)) >= 2}},
     ust |-> "json",
     uniqs |-> {<<t.content[f], f>> :
                  f \in {g \in AllFiles(t) :
                            Cardinality(SameContent(t, t.content[g])) = 1}}]

\* no path is repeated inside a sequence of the duplicates document
NoRepeats ==
    \A k \in DOMAIN dupfile.map :
        Len(dupfile.map[k]) = Cardinality(Range(dupfile.map[k]))

\* how often path f occurs in the two documents
Occurrences(f) ==
    Cardinality(UNION {{<<k, i>> : i \in {j \in DOMAIN dupfile.map[k] :
                                              dupfile.map[k][j] = f}} :
                       k \in DOMAIN dupfile.map})
    + Cardinality({k \in DOMAIN unfile.map : unfile.map[k] = f})

\* the paths and the names the documents held when the run started
PriorPaths == skip_list(pre_hashed_dict(docsAtStart[1], docsAtStart[2]))

PriorNames == {basename(q) : q \in PriorPaths}

\* the partition of a store: duplicates with their sequences, uniques unwrapped
Part(store) ==
    <<{<<k, store[k]>> : k \in {e \in DOMAIN store : Len(store[e]) >= 2}},
      {<<k, store[k][1]>> : k \in {e \in DOMAIN store : Len(store[e]) = 1}}>>

\* a result was recorded in this run and both documents were written after it
BothWritten ==
    /\ lastRec # << >>
    /\ \/ pc \in {"collect", "walk", "done"}
       \/ pc \in {"unwind", "raised"} /\ cause = "OSError"

\* the configuration this run was started with is one run_hash must refuse
BadConfig ==
    \/ ~scen.exists
    \/ restart /\ (docsAtStart[1].st # "json" \/ docsAtStart[2].st # "json")

(***************************************************************************)
(* C1: a run restarted with restart=True after a run that recorded a       *)
(* non-empty strict subset of the tree's files ends with the partition of  *)
(* the completely hashed tree (order inside a sequence ignored, no path    *)
(* repeated) and submits no task for a file the prior documents record.    *)
(***************************************************************************)
C1_RestartCorrect ==
    (pc = "done" /\ restart /\ PriorPaths # {} /\ PriorPaths \subseteq AllFiles(scen)
        /\ PriorPaths # AllFiles(scen))
    => /\ AsSets(dupfile, unfile) = CompletePartition(scen)
       /\ NoRepeats
       /\ submitted \cap PriorPaths = {}

(***************************************************************************)
(* C2: in a run with restart=True no task is submitted for an entry whose  *)
(* file name is the base name of a path of the merged prior documents.     *)
(***************************************************************************)
C2_NameSkip ==
    restart => \A p \in submitted : basename(p) \notin PriorNames

(***************************************************************************)
(* C3: when a run ends without error, fresh or restarted, every file of    *)
(* the tree occurs exactly once in the final partition.                    *)
(***************************************************************************)
C3_Complete ==
    pc = "done" => \A f \in AllFiles(scen) : Occurrences(f) = 1

(***************************************************************************)
(* C4: when the run is stopped after it completed a writer round, at any   *)
(* point, both documents can be loaded and the store rebuilt from them     *)
(* holds every result of the in-memory store except at most the one        *)
(* recorded last.                                                          *)
(***************************************************************************)
C4_CrashSafe ==
    [][(pc' = "crashed" /\ rounds >= 1)
        => /\ dupfile.st = "json"
           /\ unfile.st = "json"
           /\ \A k \in DOMAIN hashes : \A i \in DOMAIN hashes[k] :
                \/ <<k, hashes[k][i]>> = lastRec
                \/ /\ k \in DOMAIN pre_hashed_dict(dupfile, unfile)
                   /\ hashes[k][i] \in Range(pre_hashed_dict(dupfile, unfile)[k])]_vars

(***************************************************************************)
(* C5: once both documents are written after a recorded result, loading    *)
(* them, wrapping the uniques values and merging gives a store whose       *)
(* partition is the partition of the in-memory store.                      *)
(***************************************************************************)
C5_RoundTrip ==
    BothWritten
    => /\ dupfile.st = "json"
       /\ unfile.st = "json"
       /\ Part(pre_hashed_dict(dupfile, unfile)) = Part(hashes)

C5_Witness ==
    /\ BothWritten
    /\ pc = "collect"
    /\ DOMAIN dupfile.map # {}
    /\ DOMAIN unfile.map # {}

(***************************************************************************)
(* C6: a failing hashing task does not end the run with its exception, and *)
(* a run that ends has recorded every readable file it submitted and no    *)
(* unreadable one.                                                         *)
(***************************************************************************)
C6_Isolation ==
    /\ cause # "OSError"
    /\ pc = "done" => \A p \in submitted :
                          IF Readable(p) THEN Occurrences(p) >= 1
                                         ELSE Occurrences(p) = 0

(***************************************************************************)
(* C7: with a missing root, or restart=True and a document absent or       *)
(* unparsable, the run ends with an error, submits no task and leaves both *)
(* documents as they were.                                                 *)
(***************************************************************************)
C7_ConfigFatal ==
    (runs > 0 /\ BadConfig)
    => /\ pc = "raised"
       /\ cause \in {"ValueError", "FileNotFoundError", "JSONDecodeError"}
       /\ submitted = {}
       /\ <<dupfile, unfile>> = docsAtStart

C7_Witness ==
    /\ pc = "raised"
    /\ restart
    /\ scen.exists
    /\ docsAtStart[1].st = "json"
    /\ docsAtStart[2].st # "json"

(***************************************************************************)
(* C8: a fresh run on a tree without files ends with both documents        *)
(* holding the empty mapping.                                              *)
(***************************************************************************)
C8_EmptyTree ==
    (pc = "done" /\ ~restart /\ AllFiles(scen) = {})
    => dupfile = Json(EmptyMap) /\ unfile = Json(EmptyMap)

(***************************************************************************)
(* C9: filter_dict returns as duplicates exactly the digests with two or   *)
(* more paths, each with its whole sequence, and as uniques exactly the    *)
(* digests with one path, each with that path; no digest is in both and    *)
(* the store is as it was.                                                 *)
(***************************************************************************)
C9_FilterDict ==
    pc = "filter_out"
    => /\ \A d \in FilterKeys :
            /\ d \in DOMAIN dup_dict <=> (d \in DOMAIN hashes /\ Len(hashes[d]) >= 2)
            /\ d \in DOMAIN dup_dict => dup_dict[d] = hashes[d]
            /\ d \in DOMAIN unique_dict <=> (d \in DOMAIN hashes /\ Len(hashes[d]) = 1)
            /\ d \in DOMAIN unique_dict => unique_dict[d] = hashes[d][1]
       /\ DOMAIN dup_dict \cup DOMAIN unique_dict \subseteq FilterKeys
       /\ DOMAIN dup_dict \cap DOMAIN unique_dict = {}
       /\ hashes = arg_results

C9_Witness ==
    /\ pc = "filter_out"
    /\ "d1" \in DOMAIN dup_dict /\ Len(dup_dict["d1"]) = 3
    /\ "d2" \in DOMAIN unique_dict
    /\ "d3" \in DOMAIN hashes /\ hashes["d3"] = << >>

(***************************************************************************)
(* C10: all complete fresh runs on the tree end with the same documents,   *)
(* as sets, whatever the worker count and the order of completion.         *)
(***************************************************************************)
C10_SameResult ==
    \A i, j \in DOMAIN freshFinals : freshFinals[i] = freshFinals[j]

C10_Witness ==
    /\ Len(freshFinals) >= 2
    /\ freshFinals[1].dups # {}
    /\ freshFinals[1].uniqs # {}
    /\ count = 2

(***************************************************************************)
(* C11: once the opening of a document for writing has failed, no hashing  *)
(* task starts or finishes any more and no further result is recorded,     *)
(* until the run has ended with the error.                                 *)
(***************************************************************************)
C11_AbortPromptly ==
    [][(pc = "unwind" /\ cause = "PermissionError" /\ pc' \in {"unwind", "raised"})
        => /\ futures' = futures
           /\ hashes' = hashes
           /\ recorded' = recorded]_vars

\* how often path f occurs in the store
StoreOccurrences(f) ==
    Cardinality(UNION {{<<k, i>> : i \in {j \in DOMAIN hashes[k] : hashes[k][j] = f}} :
                       k \in DOMAIN hashes})

(***************************************************************************)
(* C12: in every state of a run, fresh or resumed, a path occurs at most   *)
(* once in the store: not in two sequences and not twice in one.           *)
(***************************************************************************)
C12_PathOnce ==
    \A f \in AllFiles(scen) : StoreOccurrences(f) <= 1

\* the content of the two documents: duplicates with sequences, uniques with paths
DocPart(dup_doc, un_doc) ==
    <<{<<k, dup_doc.map[k]>> : k \in DOMAIN dup_doc.map},
      {<<k, un_doc.map[k]>> : k \in DOMAIN un_doc.map}>>

(***************************************************************************)
(* C13: a retrieved result is appended to the store and the whole          *)
(* partition is written to both documents before the next result is        *)
(* retrieved: where the coordinating thread retrieves a result, every      *)
(* result recorded in this run has had its writer round and the documents  *)
(* hold exactly the partition of the store.                                *)
(***************************************************************************)
C13_RecordThenPersist ==
    /\ pc \in {"collect", "walk", "done"}
        => /\ rounds = recorded
           /\ recorded >= 1 => /\ dupfile.st = "json"
                               /\ unfile.st = "json"
                               /\ DocPart(dupfile, unfile) = Part(hashes)
    /\ pc \in {"open_dup", "dump_dup", "open_un", "dump_un"}
        => /\ recorded = rounds + 1
           /\ lastRec[1] \in DOMAIN hashes
           /\ hashes[lastRec[1]][Len(hashes[lastRec[1]])] = lastRec[2]

C13_Witness ==
    /\ pc = "collect"
    /\ recorded = 2
    /\ \E i \in DOMAIN futures : futures[i].st = "ok"

\* the directory of a path
dirname(path) == SubSeq(path, 1, Len(path) - 1)

(***************************************************************************)
(* C14: all tasks of the pool belong to the directory the walk is at, and  *)
(* where the walk moves to the next directory no task is pending or        *)
(* running and every task submitted so far has had its result recorded and *)
(* persisted.                                                              *)
(***************************************************************************)
C14_Barrier ==
    /\ \A i \in DOMAIN futures :
          dirname(futures[i].path) = scen.walk[dirIdx].dirName
    /\ pc = "walk" => /\ ~PoolBusy
                      /\ recorded = Cardinality(submitted)
                      /\ rounds = recorded
                      /\ \A p \in submitted : Occurrences(p) >= 1

C14_Witness ==
    /\ dirIdx = 2
    /\ pc = "collect"
    /\ recorded >= 1
    /\ NumRunning >= 1
    /\ Pending # {}

(***************************************************************************)
(* C15: the number of hashing tasks running at the same time is at most    *)
(* count, however many files the directory holds.                          *)
(***************************************************************************)
C15_Bounded == NumRunning <= count

C15_Witness ==
    /\ count = 1
    /\ NumRunning = 1
    /\ Cardinality(Pending) = 2

\* a step of a pool thread: a task starts, or its hashfile call ends
WorkerStep ==
    \E i \in DOMAIN futures :
        /\ i \in DOMAIN futures'
        /\ \/ futures[i].st = "pending" /\ futures'[i].st = "running"
           \/ futures[i].st = "running" /\ futures'[i].st \in {"ok", "failed"}

(***************************************************************************)
(* C16: no step of a pool thread changes the store or a document; every    *)
(* change of them is a step of the coordinating thread (it moves on in     *)
(* run_hash, or run_hash is called anew).                                  *)
(***************************************************************************)
C16_SingleOwner ==
    [][/\ WorkerStep => (hashes' = hashes /\ dupfile' = dupfile /\ unfile' = unfile)
       /\ (hashes' # hashes \/ dupfile' # dupfile \/ unfile' # unfile)
            => (pc' # pc \/ runs' # runs)]_vars

C16_Witness ==
    /\ pc \in {"dump_dup", "open_un", "dump_un"}
    /\ \E i \in DOMAIN futures : futures[i].st = "ok"
    /\ \E i \in DOMAIN futures : futures[i].st = "running"

\* sequence a is a prefix of sequence b
Prefix(a, b) == Len(a) <= Len(b) /\ SubSeq(b, 1, Len(a)) = a

\* the paths two documents hold
DocPaths(dup_doc, un_doc) ==
    UNION {Range(dup_doc.map[k]) : k \in DOMAIN dup_doc.map}
        \cup {un_doc.map[k] : k \in DOMAIN un_doc.map}

(***************************************************************************)
(* C17: in every step of a run each digest of the store stays and its      *)
(* sequence before the step is a prefix of its sequence after it; from one *)
(* completed writer round of the run to the next, a key of the duplicates  *)
(* document stays one and is no key of the uniques document, and every     *)
(* path the documents held is still held.                                  *)
(***************************************************************************)
C17_Monotonic ==
    [][/\ (InRun /\ runs' = runs /\ pc' # "crashed")
            => \A k \in DOMAIN hashes :
                  k \in DOMAIN hashes' /\ Prefix(hashes[k], hashes'[k])
       /\ (rounds >= 1 /\ rounds' = rounds + 1)
            => /\ \A k \in DOMAIN roundDocs[1].map :
                     k \in DOMAIN dupfile'.map /\ k \notin DOMAIN unfile'.map
               /\ DocPaths(roundDocs[1], roundDocs[2]) \subseteq DocPaths(dupfile', unfile')]_vars

C17_Witness ==
    /\ pc = "collect"
    /\ rounds = 3
    /\ DOMAIN roundDocs[1].map # {}
    /\ DOMAIN roundDocs[2].map # {}

\* no digest is a key of both documents, the duplicates values hold two or
\* more paths and the uniques values are single paths
WellFormed(dup_doc, un_doc) ==
    /\ DOMAIN dup_doc.map \cap DOMAIN un_doc.map = {}
    /\ \A k \in DOMAIN dup_doc.map :
          Len(dup_doc.map[k]) >= 2 /\ Range(dup_doc.map[k]) \subseteq AllFiles(scen)
    /\ \A k \in DOMAIN un_doc.map : un_doc.map[k] \in AllFiles(scen)

\* the coordinating thread is between the two writes of one round
BetweenWrites == pc \in {"open_un", "dump_un"}

Coordinator ==
    \/ SubmitDir
    \/ WalkDone
    \/ \E i \in DOMAIN futures : RetrieveResult(i)
    \/ \E i \in DOMAIN futures : RetrieveException(i)
    \/ PoolExit
    \/ OpenDup
    \/ DumpDup
    \/ OpenUn
    \/ DumpUn
    \/ OpenRaises
    \/ Unwind

Workers ==
    \/ WorkerStart
    \/ \E i \in DOMAIN futures : WorkerFinish(i)

NextLive ==
    \/ \E r \in BOOLEAN, c \in 1..MaxWorkers : RunHashStart(r, c)
    \/ \E r \in BOOLEAN, c \in 1..MaxWorkers : RunHashConfigError(r, c)
    \/ Coordinator
    \/ Workers

SpecLive ==
    /\ Init
    /\ [][NextLive]_vars
    /\ WF_vars(Coordinator)
    /\ WF_vars(WorkerStart)
    /\ WF_vars(\E i \in DOMAIN futures : WorkerFinish(i))

\* every file of the tree can be read and every write succeeds
NoFailure == scen.unreadable = {} /\ scen.unwritable = {}

(***************************************************************************)
(* C19: a run on a tree where no hashing task and no write fails ends, and *)
(* at its end no task is pending or running and the number of completed    *)
(* writer rounds, of tasks submitted and of results recorded are equal.    *)
(***************************************************************************)
C19_Terminates ==
    /\ (InRun /\ NoFailure) ~> (pc = "done")
    /\ [](pc = "done" => /\ ~PoolBusy
                         /\ rounds = Cardinality(submitted)
                         /\ recorded = rounds)

C19_Witness ==
    /\ pc = "done"
    /\ NoFailure
    /\ rounds = 3
    /\ count = 2

====
